---- MODULE Spec2Model ----
(***************************************************************************)
(* Model of libqca7k (src/libqca7k.c, src/libqca7k.h): the command and     *)
(* register codec, the interrupt and lifecycle operations, the frame       *)
(* transmitter and the resumable frame receiver of a QCA7000 SPI driver.   *)
(*                                                                         *)
(* The SPI shim (qca7k_spi_begin/end/write/read) is the environment: every *)
(* call of it is logged in `bus`, and every byte it returns is chosen by   *)
(* the environment.  The build is part of the state: hostLE is the host    *)
(* byte order the #if __BYTE_ORDER__ branches select, intBits the width of *)
(* int that the integer promotions of qca7k_write_command use.             *)
(***************************************************************************)
EXTENDS Integers, Sequences, FiniteSets, TLC

VARIABLES
    hostLE,         \* TRUE: __BYTE_ORDER__ == __ORDER_LITTLE_ENDIAN__
    intBits,        \* width of int of the build: 16 or 32
    g_state,        \* _g_state
    g_origin,       \* _g_recv_buf_origin: a buffer id, NULL when unset
    g_ptr,          \* _g_recv_buf_ptr, as the offset from _g_recv_buf_origin
    g_bytes_left,   \* _g_state_bytes_left
    g_expected,     \* _g_expected_byte
    g_fl,           \* _g_fl
    v,              \* static uint8_t v of qca7k_recv
    retry_loop,     \* local of qca7k_recv
    i,              \* loop counter of qca7k_recv
    bytes_available,\* local of qca7k_recv
    data,           \* argument of the running (or last) qca7k_recv
    pc,             \* "idle", "loop" (inside the read loop of qca7k_recv), "ub"
    mem,            \* caller buffers: buffer id -> bytes stored from offset 0
    bus,            \* shim calls of the running (or last) operation
    nread,          \* stream bytes read by the running (or last) qca7k_recv
    op,             \* name of the running (or last) operation
    arg,            \* its arguments, then the register bytes the chip answered
    ret,            \* its return value
    stream,         \* bytes the chip holds for the external read
    pos,            \* how many of them have been read
    entry,          \* receive context as qca7k_recv found it, kept until its first loop pass
    frames          \* what the stream was built from (scenario bookkeeping)

vars == <<hostLE, intBits, g_state, g_origin, g_ptr, g_bytes_left, g_expected,
          g_fl, v, retry_loop, i, bytes_available, data, pc, mem, bus, nread,
          op, arg, ret, stream, pos, entry, frames>>

recvctx == <<g_state, g_origin, g_ptr, g_bytes_left, g_expected, g_fl>>
recvloc == <<v, retry_loop, i, bytes_available, data, pc, nread, entry>>
build == <<hostLE, intBits>>

(***************************************************************************)
(* Constants of libqca7k.h                                                 *)
(***************************************************************************)
QCA7K_REG_BFR_SIZE == 256
QCA7K_REG_WRBUF_SPC_AVA == 512
QCA7K_REG_RDBUF_BYTE_AVA == 768
QCA7K_REG_SPI_CONFIG == 1024
QCA7K_REG_INTR_CAUSE == 3072
QCA7K_REG_INTR_ENABLE == 3328
QCA7K_REG_SIGNATURE == 6656
QCA7K_SLAVE_RESET_BIT == 64
QCA7K_INT_CPU_ON == 64
QCA7K_INT_WRBUF_ERR == 4
QCA7K_INT_RDBUF_ERR == 2
QCA7K_INT_PKT_AVLBL == 1
QCA7K_SIGNATURE == 43605
QCA7K_FRAME_MAX == 1522
QCA7K_FRAME_MIN == 60
QCA7K_SOF == 170
QCA7K_RESERVED == 0
QCA7K_EOF == 85

\* qca7k_state_t
QCA7K_OK == "QCA7K_OK"
QCA7K_BAD_SIGNATURE == "QCA7K_BAD_SIGNATURE"
QCA7K_FRAME_OVERFLOW == "QCA7K_FRAME_OVERFLOW"
QCA7K_WRITE_BUFFER_INSUFFICIENT == "QCA7K_WRITE_BUFFER_INSUFFICIENT"
QCA7K_NULL_RECV_BUFFER == "QCA7K_NULL_RECV_BUFFER"
QCA7K_EMPTY_READ_BUFFER == "QCA7K_EMPTY_READ_BUFFER"
QCA7K_INTERNAL_ERROR == "QCA7K_INTERNAL_ERROR"
QCA7K_READING_SOF == "QCA7K_READING_SOF"
QCA7K_READING_FL == "QCA7K_READING_FL"
QCA7K_READING_RESERVED == "QCA7K_READING_RESERVED"
QCA7K_READING_FRAME == "QCA7K_READING_FRAME"
QCA7K_READING_EOF == "QCA7K_READING_EOF"

NULL == 0

\* Bounds of the model
MaxChunk == 2
StreamChunk == 1
MaxRead == 12

\* The caller's receive buffers, each of QCA7K_FRAME_MAX bytes
Buffers == {1, 2}

(***************************************************************************)
(* Fixed-width arithmetic                                                  *)
(***************************************************************************)
U16 == 65536
\* size_t is at least 16 bits wide; no run of the model reads as many bytes
\* as a wider size_t would need to count down to 0 after a wrap.
SIZE_MAX == U16 - 1

Hi(x) == (x \div 256) % 256
Lo(x) == x % 256

\* Bit p (a power of 2) of a | b and of a & ~b
OrBit(a, b, p) == IF (a \div p) % 2 = 1 \/ (b \div p) % 2 = 1 THEN p ELSE 0
AndNotBit(a, b, p) == IF (a \div p) % 2 = 1 /\ (b \div p) % 2 = 0 THEN p ELSE 0

\* a | b on uint16_t
Or16(a, b) ==
    OrBit(a, b, 1) + OrBit(a, b, 2) + OrBit(a, b, 4) + OrBit(a, b, 8)
    + OrBit(a, b, 16) + OrBit(a, b, 32) + OrBit(a, b, 64) + OrBit(a, b, 128)
    + OrBit(a, b, 256) + OrBit(a, b, 512) + OrBit(a, b, 1024) + OrBit(a, b, 2048)
    + OrBit(a, b, 4096) + OrBit(a, b, 8192) + OrBit(a, b, 16384) + OrBit(a, b, 32768)

\* a & ~b on uint16_t
AndNot16(a, b) ==
    AndNotBit(a, b, 1) + AndNotBit(a, b, 2) + AndNotBit(a, b, 4) + AndNotBit(a, b, 8)
    + AndNotBit(a, b, 16) + AndNotBit(a, b, 32) + AndNotBit(a, b, 64)
    + AndNotBit(a, b, 128) + AndNotBit(a, b, 256) + AndNotBit(a, b, 512)
    + AndNotBit(a, b, 1024) + AndNotBit(a, b, 2048) + AndNotBit(a, b, 4096)
    + AndNotBit(a, b, 8192) + AndNotBit(a, b, 16384) + AndNotBit(a, b, 32768)

\* static inline uint16_t __u16(uint8_t v)
u16(b) == Or16((b * 256) % U16, b)

(***************************************************************************)
(* The shim log: one entry per call of qca7k_spi_begin, qca7k_spi_end,     *)
(* qca7k_spi_write(b) and qca7k_spi_read() -> b.  The stream bytes that    *)
(* the read loop of qca7k_recv reads are counted in nread instead.         *)
(***************************************************************************)
Begin == <<"begin", 0>>
End == <<"end", 0>>
Wr(b) == <<"w", b>>
Rd(b) == <<"r", b>>

(***************************************************************************)
(* Command/register codec                                                  *)
(***************************************************************************)
\* The union { uint16_t val; uint8_t bytes[2]; } of a host: bytes[0], bytes[1]
UnionBytes(val) == IF hostLE THEN <<Lo(val), Hi(val)>> ELSE <<Hi(val), Lo(val)>>

\* qca7k_write_register: the two bytes handed to qca7k_spi_write, in order
WriteRegisterBytes(val) ==
    LET res == UnionBytes(val)
    IN  IF hostLE THEN <<res[2], res[1]>> ELSE res

qca7k_write_register(val) ==
    LET b == WriteRegisterBytes(val) IN <<Wr(b[1]), Wr(b[2])>>

\* qca7k_read_register: the value made of the two bytes qca7k_spi_read returns
qca7k_read_register(w) ==
    IF hostLE THEN Or16(w[1], (w[2] * 256) % U16)
    ELSE Or16((w[1] * 256) % U16, w[2])

\* (reg << 2) >> 2 after the integer promotions of the build: a 16-bit
\* unsigned int drops the two top bits, a 32-bit int keeps them
ShiftMask(reg) ==
    IF intBits = 16 THEN ((reg * 4) % U16) \div 4 ELSE (reg * 4) \div 4

B2I(b) == IF b THEN 1 ELSE 0

\* qca7k_write_command: the word handed to qca7k_write_register
CommandWord(rw, in, reg) ==
    LET res == IF in THEN ShiftMask(reg) % U16 ELSE 0
    IN  Or16(res, Or16(B2I(rw) * 32768, B2I(in) * 16384))

qca7k_write_command(rw, in, reg) == qca7k_write_register(CommandWord(rw, in, reg))

\* Mutant of ReadTransaction: the transaction left open
ReadTransactionOpen(reg, w) ==
    <<Begin>> \o qca7k_write_command(TRUE, TRUE, reg) \o <<Rd(w[1]), Rd(w[2])>>

\* A transaction reading one internal register; w are the bytes the chip returns
ReadTransaction(reg, w) ==
    <<Begin>> \o qca7k_write_command(TRUE, TRUE, reg) \o <<Rd(w[1]), Rd(w[2])>> \o <<End>>

\* A transaction writing one internal register
WriteTransaction(reg, val) ==
    <<Begin>> \o qca7k_write_command(FALSE, TRUE, reg) \o qca7k_write_register(val) \o <<End>>

(***************************************************************************)
(* What the environment may answer and what callers may pass               *)
(***************************************************************************)
\* Both wire orders of a 16-bit value
Wire(val) == {<<Hi(val), Lo(val)>>, <<Lo(val), Hi(val)>>}

WireOf(vals) == UNION {Wire(x) : x \in vals}

SignatureWire == WireOf({QCA7K_SIGNATURE, 0})
CauseWire == WireOf({0, 1, 1024})
EnableWire == WireOf({0, 64})
ConfigWire == WireOf({64, 256})
SpaceWire == WireOf({69, 70, 1532})
Masks == {0, 6}
CommandRegs == {QCA7K_REG_BFR_SIZE, QCA7K_REG_SIGNATURE, 16384, 32768, 65535}

(***************************************************************************)
(* Operations that are one bus conversation                                *)
(***************************************************************************)
Idle == pc = "idle"

Return(name, a, r, b) == op' = name /\ arg' = a /\ ret' = r /\ bus' = b

NoRecv == UNCHANGED <<recvctx, recvloc, mem, stream, pos, frames, build>>

InterruptsSetBus(m) == WriteTransaction(QCA7K_REG_INTR_ENABLE, m)

InterruptsGetBus(w) == ReadTransaction(QCA7K_REG_INTR_ENABLE, w)

EnableAllMask ==
    Or16(Or16(QCA7K_INT_CPU_ON, QCA7K_INT_WRBUF_ERR),
         Or16(QCA7K_INT_RDBUF_ERR, QCA7K_INT_PKT_AVLBL))

qca7k_interrupts_set(m) ==
    /\ Idle
    /\ Return("qca7k_interrupts_set", <<m>>, "void", InterruptsSetBus(m))
    /\ NoRecv

qca7k_interrupts_get(w) ==
    /\ Idle
    /\ Return("qca7k_interrupts_get", <<w>>, qca7k_read_register(w), InterruptsGetBus(w))
    /\ NoRecv

qca7k_interrupts_enable_all ==
    /\ Idle
    /\ Return("qca7k_interrupts_enable_all", <<>>, "void", InterruptsSetBus(EnableAllMask))
    /\ NoRecv

qca7k_interrupts_enable(m, w) ==
    /\ Idle
    /\ LET new == Or16(qca7k_read_register(w), m)
       IN  Return("qca7k_interrupts_enable", <<m, w>>, "void",
                  InterruptsGetBus(w) \o InterruptsSetBus(new))
    /\ NoRecv

qca7k_interrupts_disable_all ==
    /\ Idle
    /\ Return("qca7k_interrupts_disable_all", <<>>, "void", InterruptsSetBus(0))
    /\ NoRecv

qca7k_interrupts_disable(m, w) ==
    /\ Idle
    /\ LET new == AndNot16(qca7k_read_register(w), m)
       IN  Return("qca7k_interrupts_disable", <<m, w>>, "void",
                  InterruptsGetBus(w) \o InterruptsSetBus(new))
    /\ NoRecv

\* The bus conversation of qca7k_interrupt_reasons; w are the cause bytes read
InterruptReasonsBus(w) ==
    InterruptsSetBus(0)
    \o ReadTransaction(QCA7K_REG_INTR_CAUSE, w)
    \o WriteTransaction(QCA7K_REG_INTR_CAUSE, qca7k_read_register(w))

qca7k_interrupt_reasons(w) ==
    /\ Idle
    /\ Return("qca7k_interrupt_reasons", <<w>>, qca7k_read_register(w), InterruptReasonsBus(w))
    /\ NoRecv

SignatureBus(w) == ReadTransaction(QCA7K_REG_SIGNATURE, w)

qca7k_signature(w) ==
    /\ Idle
    /\ Return("qca7k_signature", <<w>>, qca7k_read_register(w), SignatureBus(w))
    /\ NoRecv

\* Mutant of StartupChecked: the first read compared
StartupCheckedFirst(s1, s2) == s1

\* The signature qca7k_startup compares: s1, s2 are the first and second read
StartupChecked(s1, s2) == s2

qca7k_startup(w1, w2) ==
    /\ Idle
    /\ LET s1 == qca7k_read_register(w1)
           s2 == qca7k_read_register(w2)
       IN  IF StartupChecked(s1, s2) # QCA7K_SIGNATURE
           THEN Return("qca7k_startup", <<w1, w2>>, QCA7K_BAD_SIGNATURE,
                       SignatureBus(w1) \o SignatureBus(w2))
           ELSE Return("qca7k_startup", <<w1, w2>>, QCA7K_OK,
                       SignatureBus(w1) \o SignatureBus(w2)
                       \o InterruptsSetBus(EnableAllMask))
    /\ NoRecv

qca7k_reset(w) ==
    /\ Idle
    /\ LET config == qca7k_read_register(w)
       IN  Return("qca7k_reset", <<w>>, "void",
                  ReadTransaction(QCA7K_REG_SPI_CONFIG, w)
                  \o WriteTransaction(QCA7K_REG_SPI_CONFIG, Or16(config, QCA7K_SLAVE_RESET_BIT)))
    /\ NoRecv

\* The low level interface, called by the user inside a transaction of theirs
WriteCommand(rw, in, reg) ==
    /\ Idle
    /\ Return("qca7k_write_command", <<rw, in, reg>>, "void", qca7k_write_command(rw, in, reg))
    /\ NoRecv

(***************************************************************************)
(* Frame transmitter                                                       *)
(***************************************************************************)
SizeToWrite(size) == IF size < QCA7K_FRAME_MIN THEN QCA7K_FRAME_MIN ELSE size

SizeNeeded(size) == 4 + 2 + 2 + SizeToWrite(size) + 2

\* The bytes of the frame length that reach the bus: the union res of
\* qca7k_send is filled and never handed to qca7k_spi_write
SendLengthBytes(size_to_write) == <<>>

\* The bytes qca7k_send writes after the external-write command
SendFrameBytes(d, size) ==
    LET size_to_write == SizeToWrite(size)
    IN  WriteRegisterBytes(u16(QCA7K_SOF)) \o WriteRegisterBytes(u16(QCA7K_SOF))
        \o SendLengthBytes(size_to_write)
        \o WriteRegisterBytes(u16(QCA7K_RESERVED))
        \o [k \in 1..size_to_write |-> IF k <= size THEN d[k] ELSE 0]
        \o WriteRegisterBytes(u16(QCA7K_EOF))

\* Mutant of SendRefused: the space compared with the unpadded need
SendRefusedUnpadded(write_available, size) == write_available < 4 + 2 + 2 + size + 2

\* Whether qca7k_send refuses for lack of write space
SendRefused(write_available, size) == write_available < SizeNeeded(size)

\* The transaction that announces the size of the external write
SendSizeBus(size) == WriteTransaction(QCA7K_REG_BFR_SIZE, SizeNeeded(size) % U16)

\* The external-write transaction
SendDataBus(d, size) ==
    LET bytes == SendFrameBytes(d, size)
    IN  <<Begin>> \o qca7k_write_command(FALSE, FALSE, 0)
        \o [k \in 1..Len(bytes) |-> Wr(bytes[k])] \o <<End>>

SendReturn(size, w) ==
    IF size > QCA7K_FRAME_MAX THEN QCA7K_FRAME_OVERFLOW
    ELSE IF SendRefused(qca7k_read_register(w), size) THEN QCA7K_WRITE_BUFFER_INSUFFICIENT
    ELSE QCA7K_OK

\* Mutant of SendBus: the size compared after the write space has been read
SendBusSpaceFirst(d, size, w) ==
    IF size > QCA7K_FRAME_MAX \/ SendRefused(qca7k_read_register(w), size)
    THEN ReadTransaction(QCA7K_REG_WRBUF_SPC_AVA, w)
    ELSE ReadTransaction(QCA7K_REG_WRBUF_SPC_AVA, w) \o SendSizeBus(size) \o SendDataBus(d, size)

SendBus(d, size, w) ==
    IF size > QCA7K_FRAME_MAX THEN <<>>
    ELSE IF SendRefused(qca7k_read_register(w), size)
         THEN ReadTransaction(QCA7K_REG_WRBUF_SPC_AVA, w)
    ELSE ReadTransaction(QCA7K_REG_WRBUF_SPC_AVA, w) \o SendSizeBus(size) \o SendDataBus(d, size)

\* d: the caller's bytes (at least size of them); w: the space bytes the chip returns
qca7k_send(d, size, w) ==
    /\ Idle
    /\ Return("qca7k_send", <<d, size, w>>, SendReturn(size, w), SendBus(d, size, w))
    /\ NoRecv

\* qca7k_write_register(val) and, on the two bytes it wrote handed back in the
\* same order, qca7k_read_register
RegisterRoundTrip(val) ==
    /\ Idle
    /\ LET w == WriteRegisterBytes(val)
       IN  Return("register_round_trip", <<val>>, qca7k_read_register(w),
                  qca7k_write_register(val) \o <<Rd(w[1]), Rd(w[2])>>)
    /\ NoRecv

(***************************************************************************)
(* Frame receiver                                                          *)
(***************************************************************************)
Ctx ==
    [state |-> g_state, origin |-> g_origin, ptr |-> g_ptr,
     left |-> g_bytes_left, expected |-> g_expected, fl |-> g_fl]

SetCtx(c) ==
    /\ g_state' = c.state
    /\ g_origin' = c.origin
    /\ g_ptr' = c.ptr
    /\ g_bytes_left' = c.left
    /\ g_expected' = c.expected
    /\ g_fl' = c.fl

\* qca7k_reset_state_machine(d), as the context it leaves
qca7k_reset_state_machine(d) ==
    [state |-> QCA7K_READING_SOF, origin |-> d, ptr |-> 0,
     left |-> 4, expected |-> QCA7K_SOF, fl |-> 0]

\* Mutants of EntryReset: without the buffer comparison, without the test of
\* the terminal states
EntryResetNoSwitch(c, d) ==
    \/ c.origin = NULL
    \/ c.state = QCA7K_OK
    \/ c.state = QCA7K_INTERNAL_ERROR

EntryResetNoTerminal(c, d) ==
    \/ c.origin = NULL
    \/ d # c.origin

\* Mutant of EntryReset: the context reset at every call
EntryResetAlways(c, d) == TRUE

\* The test at the entry of qca7k_recv that resets the context
EntryReset(c, d) ==
    \/ c.origin = NULL
    \/ d # c.origin
    \/ c.state = QCA7K_OK
    \/ c.state = QCA7K_INTERNAL_ERROR

Sentinel(s) == s \in {QCA7K_READING_SOF, QCA7K_READING_RESERVED, QCA7K_READING_EOF}

\* The test deciding whether a mismatched byte is tried again: it reads
\* _g_state after qca7k_reset_state_machine has run
MismatchRetry(before, after) == after.state # QCA7K_READING_SOF

\* Mutant of AccumulateFL: the first byte of the length the less significant
AccumulateFLLowFirst(fl, byte) == Or16(fl \div 256, (byte * 256) % U16)

\* _g_fl <<= 8; _g_fl |= v
AccumulateFL(fl, byte) == Or16((fl * 256) % U16, byte)

\* The second switch of the loop: the stage that ended, c.left being 0
NextStage(c) ==
    CASE c.state = QCA7K_READING_SOF ->
            [c EXCEPT !.state = QCA7K_READING_FL, !.left = 2]
      [] c.state = QCA7K_READING_FL ->
            [c EXCEPT !.state = QCA7K_READING_RESERVED, !.left = 2,
                      !.expected = QCA7K_RESERVED]
      [] c.state = QCA7K_READING_RESERVED ->
            [c EXCEPT !.state = QCA7K_READING_FRAME, !.ptr = 0, !.left = c.fl]
      [] c.state = QCA7K_READING_FRAME ->
            [c EXCEPT !.state = QCA7K_READING_EOF, !.left = 2,
                      !.expected = QCA7K_EOF]
      [] c.state = QCA7K_READING_EOF ->
            [qca7k_reset_state_machine(c.origin) EXCEPT !.state = QCA7K_OK]
      [] OTHER -> c

\* _g_state_bytes_left -- and the stage change when it reaches 0
CountDown(c) ==
    LET c1 == [c EXCEPT !.left = (c.left + SIZE_MAX) % (SIZE_MAX + 1)]
    IN  IF c1.left = 0 THEN NextStage(c1) ELSE c1

\* Mutant of FrameDone: the loop goes on after the end of the EOF
FrameDoneNever(c) == FALSE

\* The accepted byte ends the EOF stage: the pass is left by goto done
FrameDone(c) == CountDown(c).state = QCA7K_OK

\* One pass of the loop body on byte b with context c:
\*   ctx: the context it leaves; retry: retry_loop set and i decremented;
\*   done: the pass left by goto done; store: the byte was stored at c.ptr
LoopBody(c, b) ==
    IF Sentinel(c.state)
    THEN IF c.expected # b
         THEN LET r == qca7k_reset_state_machine(c.origin)
              IN  [ctx |-> r, retry |-> MismatchRetry(c, r), done |-> FALSE, store |-> FALSE]
         ELSE [ctx |-> CountDown(c), retry |-> FALSE,
               done |-> FrameDone(c), store |-> FALSE]
    ELSE IF c.state = QCA7K_READING_FL
    THEN [ctx |-> CountDown([c EXCEPT !.fl = AccumulateFL(c.fl, b)]),
          retry |-> FALSE, done |-> FALSE, store |-> FALSE]
    ELSE IF c.state = QCA7K_READING_FRAME
    THEN [ctx |-> CountDown([c EXCEPT !.ptr = c.ptr + 1]),
          retry |-> FALSE, done |-> FALSE, store |-> TRUE]
    ELSE [ctx |-> [qca7k_reset_state_machine(NULL) EXCEPT !.state = QCA7K_INTERNAL_ERROR],
          retry |-> FALSE, done |-> TRUE, store |-> FALSE]

\* *_g_recv_buf_ptr ++ = b, the pointer being at offset off of buffer m
Store(m, off, b) == IF off < Len(m) THEN [m EXCEPT ![off + 1] = b] ELSE Append(m, b)

\* The count bytes the chip may answer when it holds room bytes: those the
\* host reads as one of counts and as no more than room
AvailWire(counts, room) ==
    {w \in WireOf(counts) : qca7k_read_register(w) \in counts /\ qca7k_read_register(w) <= room}

NoEntry == [state |-> "none"]

\* Entry of qca7k_recv up to the start of the read loop; w: the count bytes read
RecvCall(d, w) ==
    /\ Idle
    /\ op' = "qca7k_recv"
    /\ UNCHANGED <<v, mem, stream, pos, frames, build>>
    /\ IF d = NULL
       THEN /\ arg' = <<d>>
            /\ ret' = QCA7K_NULL_RECV_BUFFER
            /\ bus' = <<>>
            /\ UNCHANGED <<recvctx, retry_loop, i, bytes_available, data, pc, nread, entry>>
       ELSE LET c == IF EntryReset(Ctx, d) THEN qca7k_reset_state_machine(d) ELSE Ctx
                n == qca7k_read_register(w)
            IN  /\ arg' = <<d, w>>
                /\ entry' = Ctx
                /\ data' = d
                /\ SetCtx(c)
                /\ bytes_available' = n
                /\ i' = 0
                /\ retry_loop' = FALSE
                /\ nread' = 0
                /\ IF n = 0
                   THEN /\ ret' = QCA7K_EMPTY_READ_BUFFER
                        /\ bus' = ReadTransaction(QCA7K_REG_RDBUF_BYTE_AVA, w)
                        /\ pc' = "idle"
                   ELSE /\ ret' = "running"
                        /\ bus' = ReadTransaction(QCA7K_REG_RDBUF_BYTE_AVA, w)
                                  \o <<Begin>> \o qca7k_write_command(TRUE, FALSE, 0)
                        /\ pc' = "loop"

\* One pass of the read loop; b is the byte qca7k_spi_read returns if it is
\* called.  The pass that ends the loop also ends the transaction and returns.
RecvIter(b) ==
    /\ pc = "loop"
    /\ LET byte == IF retry_loop THEN v ELSE b
           r == LoopBody(Ctx, byte)
           ni == IF r.retry THEN i ELSE i + 1
           over == r.store /\ g_ptr >= QCA7K_FRAME_MAX
           last == r.done \/ ni >= bytes_available
       IN  /\ v' = byte
           /\ entry' = NoEntry
           /\ nread' = IF retry_loop THEN nread ELSE nread + 1
           /\ pos' = IF retry_loop THEN pos ELSE pos + 1
           /\ IF over
              THEN \* a store past the end of the caller's buffer
                   /\ pc' = "ub"
                   /\ UNCHANGED <<recvctx, retry_loop, i, mem, bus, ret>>
              ELSE /\ SetCtx(r.ctx)
                   /\ retry_loop' = r.retry
                   /\ i' = ni
                   /\ mem' = IF r.store
                             THEN [mem EXCEPT ![g_origin] = Store(@, g_ptr, byte)]
                             ELSE mem
                   /\ pc' = IF last THEN "idle" ELSE "loop"
                   /\ bus' = IF last THEN bus \o <<End>> ELSE bus
                   /\ ret' = IF last THEN r.ctx.state ELSE ret
    /\ UNCHANGED <<bytes_available, data, op, arg, stream, frames, build>>

\* The members of qca7k_state_t in the order of their values, from 0
StateEnum ==
    <<QCA7K_OK, QCA7K_BAD_SIGNATURE, QCA7K_FRAME_OVERFLOW,
      QCA7K_WRITE_BUFFER_INSUFFICIENT, QCA7K_NULL_RECV_BUFFER,
      QCA7K_EMPTY_READ_BUFFER, QCA7K_INTERNAL_ERROR, QCA7K_READING_SOF,
      QCA7K_READING_FL, QCA7K_READING_RESERVED, QCA7K_READING_FRAME,
      QCA7K_READING_EOF>>

\* _g_state after byte b has been stored over its first byte in memory
CorruptState(b) ==
    IF hostLE /\ b < Len(StateEnum) THEN StateEnum[b + 1] ELSE "out_of_enum"

\* What the byte stored past the end of the caller's buffer may land on:
\* memory the driver does not read, or the static _g_state
OverrunHits == {"elsewhere", "_g_state"}

\* The rest of a loop pass whose store went past the end of the buffer
Overrun(hit) ==
    /\ pc = "ub"
    /\ LET c0 == [Ctx EXCEPT !.ptr = g_ptr + 1]
           c1 == IF hit = "_g_state" THEN [c0 EXCEPT !.state = CorruptState(v)] ELSE c0
           c2 == CountDown(c1)
           last == i + 1 >= bytes_available
       IN  /\ SetCtx(c2)
           /\ i' = i + 1
           /\ pc' = IF last THEN "idle" ELSE "loop"
           /\ bus' = IF last THEN bus \o <<End>> ELSE bus
           /\ ret' = IF last THEN c2.state ELSE ret
    /\ UNCHANGED <<v, retry_loop, bytes_available, data, nread, entry, mem,
                   op, arg, stream, pos, frames, build>>

(***************************************************************************)
(* Callers' payloads and the byte streams of the environment               *)
(***************************************************************************)
Payload(n, seed) == [k \in 1..n |-> (k * seed) % 256]

TxSizes == {0, 10, 59, QCA7K_FRAME_MIN, 61, QCA7K_FRAME_MAX, QCA7K_FRAME_MAX + 1}
Seeds == {0, 1}

\* The wire envelope: SOF, little-endian length, reserved, payload, EOF
WireFrame(len, payload, reserved, eof) ==
    <<QCA7K_SOF, QCA7K_SOF, QCA7K_SOF, QCA7K_SOF>> \o <<Lo(len), Hi(len)>>
    \o reserved \o payload \o eof

GoodReserved == <<QCA7K_RESERVED, QCA7K_RESERVED>>
GoodEOF == <<QCA7K_EOF, QCA7K_EOF>>

\* The frame qca7k_recv takes as one of len bytes: the first length byte is
\* the more significant in _g_fl
ReadFrame(len, payload) ==
    <<QCA7K_SOF, QCA7K_SOF, QCA7K_SOF, QCA7K_SOF>> \o <<Hi(len), Lo(len)>>
    \o GoodReserved \o payload \o GoodEOF

\* A frame with one wrong byte bad at place `at` of its reserved field or EOF
CorruptFrame(len, payload, at, bad) ==
    WireFrame(len, payload,
              IF at = "reserved1" THEN <<bad, QCA7K_RESERVED>>
              ELSE IF at = "reserved2" THEN <<QCA7K_RESERVED, bad>> ELSE GoodReserved,
              IF at = "eof1" THEN <<bad, QCA7K_EOF>>
              ELSE IF at = "eof2" THEN <<QCA7K_EOF, bad>> ELSE GoodEOF)

FrameLens == {QCA7K_FRAME_MIN, 61, 257}
CorruptAt == {"reserved1", "reserved2", "eof1", "eof2"}
BadBytes == {1, QCA7K_SOF}
Alphabet == {QCA7K_RESERVED, 1, QCA7K_EOF, QCA7K_SOF}
PayloadAlphabet == {1, QCA7K_SOF}

(***************************************************************************)
(* Specifications                                                          *)
(***************************************************************************)
Init ==
    /\ hostLE \in BOOLEAN
    /\ intBits \in {16, 32}
    /\ g_state = QCA7K_READING_SOF
    /\ g_origin = NULL
    /\ g_ptr = 0
    /\ g_bytes_left = 4
    /\ g_expected = QCA7K_SOF
    /\ g_fl = 0
    /\ v = 0
    /\ retry_loop = FALSE
    /\ i = 0
    /\ bytes_available = 0
    /\ data = NULL
    /\ pc = "idle"
    /\ mem = [b \in Buffers |-> <<>>]
    /\ bus = <<>>
    /\ nread = 0
    /\ op = "none"
    /\ arg = <<>>
    /\ ret = "none"
    /\ stream = <<>>
    /\ pos = 0
    /\ entry = NoEntry
    /\ frames = [kind |-> "none"]

\* Register values handed to the codec
CodecVals == {0, 1, QCA7K_REG_BFR_SIZE, 1532, QCA7K_SIGNATURE, 65535}

\* The register-level operations and the transmitter
Next ==
    \/ \E m \in Masks : qca7k_interrupts_set(m)
    \/ \E w \in EnableWire : qca7k_interrupts_get(w)
    \/ qca7k_interrupts_enable_all
    \/ \E m \in Masks, w \in EnableWire : qca7k_interrupts_enable(m, w)
    \/ qca7k_interrupts_disable_all
    \/ \E m \in Masks, w \in EnableWire : qca7k_interrupts_disable(m, w)
    \/ \E w \in CauseWire : qca7k_interrupt_reasons(w)
    \/ \E w \in SignatureWire : qca7k_signature(w)
    \/ \E w1 \in SignatureWire, w2 \in SignatureWire : qca7k_startup(w1, w2)
    \/ \E w \in ConfigWire : qca7k_reset(w)
    \/ \E rw \in BOOLEAN, in \in BOOLEAN, reg \in CommandRegs : WriteCommand(rw, in, reg)
    \/ \E size \in TxSizes, w \in SpaceWire : qca7k_send(Payload(size, 1), size, w)
    \/ \E val \in CodecVals : RegisterRoundTrip(val)

Spec == Init /\ [][Next]_vars

\* The receiver on arbitrary streams: every byte read is any of Alphabet,
\* at most MaxRead bytes in all
RecvAny ==
    \E d \in Buffers \cup {NULL}, w \in AvailWire(0..MaxChunk, MaxRead - pos) : RecvCall(d, w)

\* A byte read in READING_FRAME is only stored, whatever its value: there the
\* environment answers with one of PayloadAlphabet
ReadAny ==
    \E b \in (IF g_state = QCA7K_READING_FRAME THEN PayloadAlphabet ELSE Alphabet) :
        RecvIter(b)

NextRecv == RecvAny \/ ReadAny

\* The width of int plays no part in the receiver
InitRecv == Init /\ intBits = 32

SpecRecv == InitRecv /\ [][NextRecv]_vars

\* The chip's read buffer is filled once: with what qca7k_send streamed ...
Loopback(size, seed, w) ==
    /\ frames.kind = "none"
    /\ SendReturn(size, w) = QCA7K_OK
    /\ Idle
    /\ Return("qca7k_send", <<Payload(size, seed), size, w>>, SendReturn(size, w),
              SendBus(Payload(size, seed), size, w))
    /\ stream' = SendFrameBytes(Payload(size, seed), size)
    /\ frames' = [kind |-> "send", size |-> size, seed |-> seed]
    /\ UNCHANGED <<recvctx, recvloc, mem, pos, build>>

\* ... or with a frame in the wire format ...
ChipFrame(len, seed) ==
    /\ frames.kind = "none"
    /\ Idle
    /\ stream' = WireFrame(len, Payload(len, seed), GoodReserved, GoodEOF)
    /\ frames' = [kind |-> "frame", size |-> len, seed |-> seed]
    /\ UNCHANGED <<recvctx, recvloc, mem, pos, build, op, arg, ret, bus>>

\* ... or with a frame with one wrong sentinel byte and a valid frame after it
ChipResync(lenA, at, bad, lenB) ==
    /\ frames.kind = "none"
    /\ Idle
    /\ stream' = CorruptFrame(lenA, Payload(lenA, 0), at, bad)
                 \o WireFrame(lenB, Payload(lenB, 1), GoodReserved, GoodEOF)
    /\ frames' = [kind |-> "resync", size |-> lenB, seed |-> 1, at |-> at, bad |-> bad,
                  sizeA |-> lenA]
    /\ UNCHANGED <<recvctx, recvloc, mem, pos, build, op, arg, ret, bus>>

\* ... or with a frame whose length field is in the order qca7k_recv reads
\* it, first byte most significant ...
ChipFrameMsb(len, seed) ==
    /\ frames.kind = "none"
    /\ Idle
    /\ stream' = ReadFrame(len, Payload(len, seed))
    /\ frames' = [kind |-> "msb", size |-> len, seed |-> seed]
    /\ UNCHANGED <<recvctx, recvloc, mem, pos, build, op, arg, ret, bus>>

\* ... or with a frame whose length field announces more than QCA7K_FRAME_MAX
\* bytes, and that many bytes after it
ChipOverlong(fl1, fl2, n) ==
    /\ frames.kind = "none"
    /\ Idle
    /\ stream' = <<QCA7K_SOF, QCA7K_SOF, QCA7K_SOF, QCA7K_SOF, fl1, fl2>>
                 \o GoodReserved \o [k \in 1..n |-> 1] \o GoodEOF
    /\ frames' = [kind |-> "overlong", size |-> n, seed |-> 0]
    /\ UNCHANGED <<recvctx, recvloc, mem, pos, build, op, arg, ret, bus>>

\* The caller polls with one buffer; the chip reports a few bytes at a time,
\* or the whole stream when none of it has been read
RecvStream ==
    /\ frames.kind # "none"
    /\ pos < Len(stream)
    /\ \E w \in AvailWire(0..StreamChunk \cup (IF pos = 0 THEN {Len(stream)} ELSE {}),
                           Len(stream) - pos) :
          RecvCall(1, w)

ReadStream == pos < Len(stream) /\ RecvIter(stream[pos + 1])

LoopbackCalls == {<<0, 0>>, <<10, 0>>, <<10, 1>>, <<61, 1>>}
ResyncCases ==
    {<<QCA7K_FRAME_MIN, at, bad, QCA7K_FRAME_MIN>> : at \in CorruptAt, bad \in BadBytes}
    \cup {<<QCA7K_FRAME_MIN, at, 1, 257>> : at \in CorruptAt}
    \cup {<<257, "reserved2", 1, 257>>, <<257, "eof2", QCA7K_SOF, 257>>}

\* Length bytes 05 F3 (1523, first byte most significant) and FF FF, each
\* followed by QCA7K_FRAME_MAX + 1 bytes
OverlongCases == {<<5, 243, QCA7K_FRAME_MAX + 1>>, <<255, 255, QCA7K_FRAME_MAX + 1>>}

\* Lengths and payload seeds of the frames of ChipFrameMsb; seed 85 gives a
\* payload that starts 55 AA FF
MsbCases ==
    {<<0, 1>>, <<1, 85>>, <<QCA7K_FRAME_MIN, 1>>, <<QCA7K_FRAME_MIN, 85>>, <<QCA7K_FRAME_MAX, 1>>}

NextStream ==
    \/ \E c \in LoopbackCalls, w \in Wire(65535) : Loopback(c[1], c[2], w)
    \/ \E len \in FrameLens : ChipFrame(len, 1)
    \/ \E c \in ResyncCases : ChipResync(c[1], c[2], c[3], c[4])
    \/ \E c \in MsbCases : ChipFrameMsb(c[1], c[2])
    \/ \E c \in OverlongCases : ChipOverlong(c[1], c[2], c[3])
    \/ RecvStream
    \/ ReadStream
    \/ \E hit \in OverrunHits : Overrun(hit)

\* The width of int plays no part in the transmitter and the receiver
InitStream == Init /\ intBits = 32

SpecStream == InitStream /\ [][NextStream]_vars

\* Every public operation, each on one input, among the calls of a receiver
\* that reads one short frame
OtherOps ==
    \/ qca7k_interrupts_set(6)
    \/ qca7k_interrupts_get(<<0, 64>>)
    \/ qca7k_interrupts_enable_all
    \/ qca7k_interrupts_enable(6, <<0, 64>>)
    \/ qca7k_interrupts_disable_all
    \/ qca7k_interrupts_disable(6, <<0, 64>>)
    \/ qca7k_interrupt_reasons(<<0, 1>>)
    \/ qca7k_signature(<<170, 85>>)
    \/ \E w \in {<<170, 85>>, <<85, 170>>} : qca7k_startup(w, w)
    \/ qca7k_reset(<<0, 64>>)
    \/ \E size \in {10, QCA7K_FRAME_MAX + 1}, w \in {<<5, 5>>, <<0, 0>>} :
          qca7k_send(Payload(size, 1), size, w)

\* The caller polls with any buffer, or none
RecvAll ==
    /\ frames.kind # "none"
    /\ pos < Len(stream)
    /\ \E d \in Buffers \cup {NULL}, w \in AvailWire(0..MaxChunk, Len(stream) - pos) :
          RecvCall(d, w)

NextAll ==
    \/ ChipFrameMsb(1, 85)
    \/ RecvAll
    \/ ReadStream
    \/ OtherOps

InitAll == Init /\ intBits = 32

SpecAll == InitAll /\ [][NextAll]_vars

(***************************************************************************)
(* Claims                                                                  *)
(***************************************************************************)
\* The stream has been read to its end and the call that read its last byte
\* has returned
StreamDone == pos = Len(stream) /\ pc = "idle" /\ op = "qca7k_recv"

Padded(d, size) == [k \in 1..SizeToWrite(size) |-> IF k <= size THEN d[k] ELSE 0]

\* C1 (round trip): the bytes qca7k_send streams, read back by qca7k_recv
\* from a fresh context, end in QCA7K_OK with the buffer holding the payload
\* followed by zero padding up to QCA7K_FRAME_MIN.
C1_RoundTrip ==
    (frames.kind = "send" /\ StreamDone) =>
        /\ ret = QCA7K_OK
        /\ mem[1] = Padded(Payload(frames.size, frames.seed), frames.size)

\* The bytes the envelope of a payload d of size bytes is to hold
Envelope(d, size) ==
    <<170, 170, 170, 170>>
    \o <<SizeToWrite(size) % 256, SizeToWrite(size) \div 256>>
    \o <<0, 0>> \o Padded(d, size) \o <<85, 85>>

\* C2 (transmit envelope): an accepted qca7k_send writes size_to_write + 10 to
\* the buffer-size register and then streams AA AA AA AA, the little-endian
\* size_to_write, 00 00, the payload, the zero padding, 55 55.
C2_TransmitEnvelope ==
    (op = "qca7k_send" /\ ret = QCA7K_OK) =>
        LET d == arg[1]
            size == arg[2]
            env == Envelope(d, size)
        IN  bus = ReadTransaction(QCA7K_REG_WRBUF_SPC_AVA, arg[3])
                  \o WriteTransaction(QCA7K_REG_BFR_SIZE, SizeToWrite(size) + 10)
                  \o <<Begin, Wr(0), Wr(0)>>
                  \o [k \in 1..Len(env) |-> Wr(env[k])] \o <<End>>

\* C3 (wire-format receive): a frame in the wire format, its length field
\* little-endian, ends in QCA7K_OK exactly when its last 55 is read, the
\* buffer then holding its payload.
C3_WireReceive ==
    (frames.kind = "frame" /\ op = "qca7k_recv" /\ pc = "idle") =>
        /\ (ret = QCA7K_OK) <=> (pos = Len(stream))
        /\ pos = Len(stream) => mem[1] = Payload(frames.size, frames.seed)

\* C4 (resync): after a frame with one wrong reserved or EOF byte, the valid
\* frame that follows in the stream is delivered: the call that reads its
\* last byte returns QCA7K_OK with the buffer holding its payload.
C4_Resync ==
    (frames.kind = "resync" /\ StreamDone) =>
        /\ ret = QCA7K_OK
        /\ mem[1] = Payload(frames.size, frames.seed)

\* The context qca7k_recv is to parse from when it starts afresh with buffer d
Fresh(d) ==
    /\ g_state = QCA7K_READING_SOF
    /\ g_bytes_left = 4
    /\ g_expected = 170
    /\ g_fl = 0
    /\ g_origin = d
    /\ g_ptr = 0

\* qca7k_recv has been entered with a buffer and has read no stream byte yet
Entered == op = "qca7k_recv" /\ entry # NoEntry /\ nread = 0

\* C5 (buffer-switch reset): a call with another buffer than the bound one
\* finds the context reset before it reads a byte, and no byte read is ever
\* stored in a buffer other than the one of the call.
C5_BufferSwitchReset ==
    /\ []((Entered /\ entry.origin # data) => Fresh(data))
    /\ [][\A b \in Buffers : mem'[b] # mem[b] => b = data']_vars

C5_Witness ==
    /\ Entered
    /\ pc = "loop"
    /\ entry.state = QCA7K_READING_FRAME
    /\ entry.ptr > 0
    /\ entry.origin \notin {NULL, data}
    /\ Fresh(data)

\* C6 (idempotent terminal handling): a call that follows one that ended in
\* QCA7K_OK or QCA7K_INTERNAL_ERROR parses from a fresh context.
C6_TerminalRestart ==
    (Entered /\ entry.state \in {QCA7K_OK, QCA7K_INTERNAL_ERROR}) => Fresh(data)

C6_Witness ==
    /\ Entered
    /\ pc = "loop"
    /\ entry.state = QCA7K_OK
    /\ entry.origin = data
    /\ Len(mem[data]) > 0

\* The bytes written on the bus, in order
Written == SelectSeq(bus, LAMBDA e : e[1] = "w")

\* C7 (admission control): a qca7k_send of at most QCA7K_FRAME_MAX bytes that
\* finds less write space than 4 + 2 + 2 + max(size, QCA7K_FRAME_MIN) + 2
\* returns QCA7K_WRITE_BUFFER_INSUFFICIENT having written only the two command
\* bytes of the space read, in one transaction.
C7_AdmissionControl ==
    (/\ op = "qca7k_send"
     /\ arg[2] <= 1522
     /\ qca7k_read_register(arg[3]) < 10 + (IF arg[2] < 60 THEN 60 ELSE arg[2])) =>
        /\ ret = QCA7K_WRITE_BUFFER_INSUFFICIENT
        /\ Written = <<Wr(194), Wr(0)>>
        /\ Len(SelectSeq(bus, LAMBDA e : e[1] = "begin")) = 1

C7_Witness ==
    /\ op = "qca7k_send"
    /\ arg[2] = 10
    /\ qca7k_read_register(arg[3]) = 69
    /\ ret = QCA7K_WRITE_BUFFER_INSUFFICIENT

\* C8 (command encoding): the word qca7k_write_command writes has bit 15 = rw,
\* bit 14 = in and bits 13..0 = the low 14 bits of reg when in, else 0.
C8_CommandEncoding ==
    (op = "qca7k_write_command") =>
        LET word == B2I(arg[1]) * 32768 + B2I(arg[2]) * 16384
                    + (IF arg[2] THEN arg[3] % 16384 ELSE 0)
        IN  bus = <<Wr(word \div 256), Wr(word % 256)>>

\* C9 (acknowledge protocol): qca7k_interrupt_reasons writes 0 to the
\* interrupt-enable register, reads the interrupt-cause register, writes the
\* identical register value (the two bytes it read, in the order it read
\* them) back to it, returns the value decoded, and does nothing else on the
\* bus, so that the last mask written is 0.
C9_AcknowledgeProtocol ==
    (op = "qca7k_interrupt_reasons") =>
        LET w == arg[1]
        IN  /\ ret = qca7k_read_register(w)
            /\ bus = <<Begin, Wr(77), Wr(0), Wr(0), Wr(0), End,
                       Begin, Wr(204), Wr(0), Rd(w[1]), Rd(w[2]), End,
                       Begin, Wr(76), Wr(0), Wr(w[1]), Wr(w[2]), End>>

\* One read of the signature register answered with w
SignatureRead(w) == <<Begin, Wr(218), Wr(0), Rd(w[1]), Rd(w[2]), End>>

\* C10 (startup): qca7k_startup reads the signature twice; when the second
\* read is not 0xAA55 it returns QCA7K_BAD_SIGNATURE and writes no mask,
\* otherwise it writes 0x0047 to the interrupt-enable register and returns
\* QCA7K_OK, whatever the first read was.
C10_Startup ==
    (op = "qca7k_startup") =>
        LET w1 == arg[1]
            w2 == arg[2]
        IN  IF qca7k_read_register(w2) # 43605
            THEN /\ ret = QCA7K_BAD_SIGNATURE
                 /\ bus = SignatureRead(w1) \o SignatureRead(w2)
            ELSE /\ ret = QCA7K_OK
                 /\ bus = SignatureRead(w1) \o SignatureRead(w2)
                          \o <<Begin, Wr(77), Wr(0), Wr(0), Wr(71), End>>

C10_Witness ==
    /\ op = "qca7k_startup"
    /\ ret = QCA7K_OK
    /\ qca7k_read_register(arg[1]) # 43605

\* C11 (write-cursor bound): whatever the stream and its division among
\* calls, the write cursor never passes origin + QCA7K_FRAME_MAX: no byte is
\* stored at offset QCA7K_FRAME_MAX or beyond of the caller's buffer.
C11_WriteCursorBound ==
    /\ pc # "ub"
    /\ g_ptr <= QCA7K_FRAME_MAX
    /\ \A b \in Buffers : Len(mem[b]) <= QCA7K_FRAME_MAX

\* The stage in which qca7k_recv is to stand after p bytes of a frame of n bytes
StageAt(p, n) ==
    IF p < 4 THEN QCA7K_READING_SOF
    ELSE IF p < 6 THEN QCA7K_READING_FL
    ELSE IF p < 8 THEN QCA7K_READING_RESERVED
    ELSE IF p < 8 + n THEN QCA7K_READING_FRAME
    ELSE IF p < 10 + n THEN QCA7K_READING_EOF
    ELSE QCA7K_OK

C19_ZeroLengthFrame ==
    (frames.kind = "msb" /\ frames.size = 0) =>
        /\ mem[1] = <<>>
        /\ StreamDone => ret = QCA7K_OK

\* C15 (register codec round trip): on either host byte order the two bytes
\* qca7k_write_register(v) writes, handed in the same order to
\* qca7k_read_register, give v again.
C15_RegisterRoundTrip ==
    (op = "register_round_trip") => ret = arg[1]

\* C16 (mismatched sentinel byte re-examined): a byte that fails the
\* comparison in READING_RESERVED or READING_EOF resets the context to
\* READING_SOF on the same buffer and is tried again before another byte is
\* read, leaving 3 bytes of SOF to come when it is 0xAA; a byte that fails in
\* READING_SOF is dropped, 4 bytes remaining.
C16_MismatchRetried ==
    [][(pc = "loop" /\ pc' # "ub") =>
        /\ (/\ ~retry_loop
            /\ g_state \in {QCA7K_READING_RESERVED, QCA7K_READING_EOF}
            /\ v' # g_expected) =>
                /\ retry_loop' /\ pc' = "loop"
                /\ g_state' = QCA7K_READING_SOF /\ g_bytes_left' = 4
                /\ g_origin' = g_origin
        /\ retry_loop =>
                /\ nread' = nread /\ v' = v
                /\ g_state' = QCA7K_READING_SOF
                /\ g_bytes_left' = (IF v = 170 THEN 3 ELSE 4)
        /\ (~retry_loop /\ g_state = QCA7K_READING_SOF /\ v' # g_expected) =>
                /\ ~retry_loop'
                /\ g_state' = QCA7K_READING_SOF /\ g_bytes_left' = 4]_vars

\* C17 (QCA7K_EMPTY_READ_BUFFER leaves the parse untouched): a call that
\* reads 0 from the read-bytes-available register returns
\* QCA7K_EMPTY_READ_BUFFER after that one transaction, reads no stream byte,
\* and, made with the buffer of a frame in progress, leaves every field of
\* the context as it was.
C17_EmptyReadBuffer ==
    (/\ op = "qca7k_recv" /\ pc = "idle"
     /\ Len(arg) = 2 /\ qca7k_read_register(arg[2]) = 0) =>
        /\ ret = QCA7K_EMPTY_READ_BUFFER
        /\ entry # NoEntry
        /\ bus = <<Begin, Wr(195), Wr(0), Rd(arg[2][1]), Rd(arg[2][2]), End>>
        /\ nread = 0
        /\ (entry.origin = data
            /\ entry.state \notin {QCA7K_OK, QCA7K_INTERNAL_ERROR}) => Ctx = entry

C17_Witness ==
    /\ op = "qca7k_recv" /\ pc = "idle" /\ entry # NoEntry
    /\ ret = QCA7K_EMPTY_READ_BUFFER
    /\ entry.origin = data
    /\ entry.state = QCA7K_READING_FRAME
    /\ entry.ptr > 0

\* C18 (bounded consumption per call): a call that found n > 0 bytes reads
\* at most n stream bytes, exactly n unless it returns QCA7K_OK; the pass
\* that accepts the second EOF byte ends the call with QCA7K_OK, the bytes
\* after it left unread.
C18_BoundedConsumption ==
    /\ []((op = "qca7k_recv" /\ ret \notin {QCA7K_NULL_RECV_BUFFER, QCA7K_EMPTY_READ_BUFFER}) =>
            /\ nread <= bytes_available
            /\ (pc = "idle" /\ ret # QCA7K_OK) => nread = bytes_available)
    /\ [][(/\ pc = "loop" /\ ~retry_loop
           /\ g_state = QCA7K_READING_EOF /\ g_bytes_left = 1
           /\ v' = g_expected) =>
                (pc' = "idle" /\ ret' = QCA7K_OK /\ nread' = nread + 1)]_vars

C18_Witness ==
    /\ op = "qca7k_recv" /\ pc = "idle"
    /\ ret = QCA7K_OK
    /\ nread = 1
    /\ bytes_available = 2

\* The five stages of a frame
ReadingStates ==
    {QCA7K_READING_SOF, QCA7K_READING_FL, QCA7K_READING_RESERVED,
     QCA7K_READING_FRAME, QCA7K_READING_EOF}

C12_CallerErrorNoBus ==
    [][pc = "idle" =>
        /\ (op' = "qca7k_send" /\ arg'[2] > 1522) =>
                /\ ret' = QCA7K_FRAME_OVERFLOW
                /\ bus' = <<>>
                /\ UNCHANGED <<recvctx, mem>>
        /\ (op' = "qca7k_recv" /\ arg'[1] = NULL) =>
                /\ ret' = QCA7K_NULL_RECV_BUFFER
                /\ bus' = <<>>
                /\ UNCHANGED <<recvctx, mem, pos>>]_vars

C12_Witness ==
    /\ op = "qca7k_recv" /\ arg = <<NULL>>
    /\ ret = QCA7K_NULL_RECV_BUFFER
    /\ bus = <<>>
    /\ g_state = QCA7K_READING_FRAME
    /\ g_origin = 1

\* The operations of the interface that open transactions themselves
PublicOps ==
    {"qca7k_interrupts_set", "qca7k_interrupts_get", "qca7k_interrupts_enable_all",
     "qca7k_interrupts_enable", "qca7k_interrupts_disable_all",
     "qca7k_interrupts_disable", "qca7k_interrupt_reasons", "qca7k_signature",
     "qca7k_startup", "qca7k_reset", "qca7k_send", "qca7k_recv"}

\* The transactions open after the first k shim calls of the operation
OpenAfter(k) ==
    Cardinality({j \in 1..k : bus[j] = Begin}) - Cardinality({j \in 1..k : bus[j] = End})

\* C13 (transaction pairing): in every public operation begin and end
\* alternate, begin first; every read and write of a byte falls in an open
\* transaction (the stream bytes are read in the passes of the read loop);
\* no transaction is open when the operation returns.
C13_TransactionPairing ==
    (op \in PublicOps) =>
        /\ \A k \in 1..Len(bus) :
              OpenAfter(k - 1) = (IF bus[k] = Begin THEN 0 ELSE 1)
        /\ pc = "idle" => OpenAfter(Len(bus)) = 0
        /\ pc # "idle" => OpenAfter(Len(bus)) = 1

C13_Witness ==
    /\ op = "qca7k_recv" /\ pc = "idle"
    /\ ret = QCA7K_OK
    /\ Len(SelectSeq(bus, LAMBDA e : e = Begin)) = 2

====
